---- MODULE Spec2Model ----
(***************************************************************************)
(* TimerApps-CLI: the usage-accounting state machine of AppMonitor         *)
(* (src/src/app_monitor.py) over the usage ledger of ConfigManager         *)
(* (src/src/config_manager.py).                                            *)
(*                                                                         *)
(* Time.  The code reads time.time() (a float of seconds).  The model      *)
(* counts time in units of 1/Res second.  _app_session_start[p] is kept    *)
(* as the pair (now, app_session_start[p]) of absolute timestamps in the   *)
(* code; the model keeps the difference  now - _app_session_start[p]  in   *)
(* session_age[p], which is all the code ever reads of it (lines 146,      *)
(* 180).  time.time() is the wall clock: it normally moves forward and     *)
(* moves backward when the system clock is set back between two ticks.     *)
(*                                                                         *)
(* One Tick action is one execution of the body of the while loop of       *)
(* _monitor_loop, preceded by the time that passed since the previous one  *)
(* (time.sleep(check_interval) plus the latency of the tick itself).       *)
(***************************************************************************)
EXTENDS Integers, Sequences, FiniteSets, TLC

\* ------------------------------------------------------------------ bounds
\* time units per second (Res = 2: half seconds)
Res == 2
\* a tick is not taken once it would carry a running timer more than this
\* many seconds past its limit, or more than this many seconds below zero
MaxOverrun == 60

\* ------------------------------------------------------- program constants
\* utils.seconds_to_minutes divides by 60; limit_seconds = limit_minutes * 60
SecondsPerMinute == 60
\* "remaining_minutes <= 5": the warning threshold, in minutes
WarningMinutes == 5
\* DEFAULT_CONFIG["settings"]["check_interval"], in seconds
CheckInterval == 5

\* ------------------------------------------------------------ enumerations
\* Optional[float] of _app_session_start[p], as a value of session_age: None,
\* or a timestamp that lies age time units in the past
None == <<>>
Some(age) == <<age>>
\* the empty dict
EmptyMap == [x \in {} |-> 0]
\* d[k] = v on a dict
Put(d, k, v) == [x \in (DOMAIN d) \cup {k} |-> IF x = k THEN v ELSE d[x]]

INACTIVE == "inactive"
MONITORING == "monitoring"
PAUSED == "paused"
BLOCKED == "blocked"
TimerState == {INACTIVE, MONITORING, PAUSED, BLOCKED}

\* packages in config["apps"], in the insertion order of the dict
AppOrder == <<"a", "b">>
Packages == {AppOrder[i] : i \in 1..Len(AppOrder)}

\* what AppMonitor.notify can be: None (the constructor's default), the
\* repository's NotificationManager, or another object with the same methods
\* whose send_custom accepts the icon keyword (the tests' Mock)
NotifyKinds == {"none", "manager", "stub"}
\* what a call of the sink does
NotifyOutcomes == {"true", "false", "raises"}

\* the durations between two ticks that are explored, in time units: the
\* interval time.sleep(check_interval) plus the latency of the tick, for a
\* configured interval of 30 seconds with no latency and with a fraction of a
\* second of it, and a long gap (a stalled device link, a suspended process)
DtSet == {30 * Res, 30 * Res + 1, 150 * Res}
\* the same interval of 30 seconds during which the system clock was set back
\* by 60 seconds: time.time() is 30 seconds less than at the previous tick
ClockSetBack == {-(30 * Res)}

VARIABLES
    config_apps,        \* config["apps"]: package -> [limit_minutes, enabled, action]
    reset_due,          \* config["last_reset_date"] # get_today_date()
    db,                 \* db[today]: dict package -> DailyUsageRecord
    app_states,         \* _app_states: dict package -> TimerState
    session_age,        \* dict package -> time.time() - _app_session_start[p], or None
    app_total_seconds,  \* _app_total_seconds: dict package -> seconds
    warning_sent,       \* _app_5min_warning_sent: set of packages
    notify,             \* which kind of sink self.notify is
    loop_alive,         \* the thread of _monitor_loop has not returned
    frozen,             \* device side: packages disabled by pm disable-user
    calls,              \* observation: the collaborator calls of the last step
    last,               \* observation: what the last step was
    warned_log,         \* observation: packages warned since the last daily reset
    scn,                \* the scripted environment of a scenario, if one is run
    running,            \* _running
    loops,              \* the threads start() created, in order: where each is in
                        \* _monitor_loop ("top", "body") or "exited"
    starts,             \* caller -> where its call of start() is
    pending,            \* the read-modify-write of line 147 in progress, if any
    DEFAULT_CONFIG      \* the module's DEFAULT_CONFIG: its "apps" dict, and whether
                        \* config["apps"] is that same dict object

vars == <<config_apps, reset_due, db, app_states, session_age, app_total_seconds,
          warning_sent, notify, loop_alive, frozen, calls, last, warned_log, scn,
          running, loops, starts, pending, DEFAULT_CONFIG>>

\* the variables of the monitor's threads
lifecycle == <<running, loops, starts, pending>>


\* ---------------------------------------------------------------- helpers
Max(a, b) == IF a >= b THEN a ELSE b

\* utils.seconds_to_minutes: int(seconds / 60), truncation toward zero
seconds_to_minutes(seconds) ==
    IF seconds >= 0 THEN seconds \div SecondsPerMinute
    ELSE -((-seconds) \div SecondsPerMinute)

\* int(elapsed) of an elapsed time given in time units: whole seconds,
\* truncated toward zero
int_elapsed(age) == IF age >= 0 THEN age \div Res ELSE -((-age) \div Res)

\* the record add_app, update_app_usage and reset_app_timer create
ZeroRecord(limit) ==
    [total_minutes_used |-> 0, limit_minutes |-> limit, remaining_minutes |-> limit,
     sessions |-> <<>>, limit_reached |-> FALSE, blocked_at |-> "None"]

\* one collaborator call, as the observation variable calls records it
Call(op, p, res) == [op |-> op, pkg |-> p, res |-> res]

\* ConfigManager.get_total_usage(package) for today
get_total_usage(d, p) == IF p \in DOMAIN d THEN d[p].total_minutes_used ELSE 0

\* an update_app_usage that adds the minutes to the stored total
update_app_usage_increment(d, cfg, p, used_minutes) ==
    IF p \notin DOMAIN cfg THEN d
    ELSE LET rec   == IF p \in DOMAIN d THEN d[p] ELSE ZeroRecord(cfg[p].limit_minutes)
             total == rec.total_minutes_used + used_minutes
         IN  Put(d, p,
                 [rec EXCEPT !.total_minutes_used = total,
                             !.remaining_minutes = Max(0, cfg[p].limit_minutes - total)])

\* ConfigManager.update_app_usage: overwrite today's total of a configured app
update_app_usage(d, cfg, p, used_minutes) ==
    IF p \notin DOMAIN cfg THEN d
    ELSE LET rec == IF p \in DOMAIN d THEN d[p] ELSE ZeroRecord(cfg[p].limit_minutes)
         IN  Put(d, p,
                 [rec EXCEPT !.total_minutes_used = used_minutes,
                             !.remaining_minutes = Max(0, cfg[p].limit_minutes - used_minutes)])

\* ConfigManager.mark_limit_reached
mark_limit_reached(d, p) ==
    IF p \notin DOMAIN d THEN d
    ELSE [d EXCEPT ![p] = [d[p] EXCEPT !.limit_reached = TRUE, !.blocked_at = "set"]]

\* ConfigManager.reset_app_timer: supersede today's record of an enabled app
reset_app_timer(d, cfg, p) ==
    IF p \notin DOMAIN cfg \/ ~cfg[p].enabled THEN d
    ELSE Put(d, p, ZeroRecord(cfg[p].limit_minutes))

\* ConfigManager.reset_all_timers, over the apps in dict order
RECURSIVE reset_all_timers_from(_, _, _)
reset_all_timers_from(d, cfg, i) ==
    IF i > Len(AppOrder) THEN d
    ELSE reset_all_timers_from(reset_app_timer(d, cfg, AppOrder[i]), cfg, i + 1)

\* a reset_all_timers that resets every configured app, enabled or not
reset_all_timers_everything(d, cfg) ==
    [p \in DOMAIN d \cup DOMAIN cfg |->
        IF p \in DOMAIN cfg THEN ZeroRecord(cfg[p].limit_minutes) ELSE d[p]]

reset_all_timers(d, cfg) == reset_all_timers_from(d, cfg, 1)

\* the value reset_app_timer returns (lines 273-275, 289)
reset_app_timer_ret(cfg, p) == p \in DOMAIN cfg /\ cfg[p].enabled

\* the count reset_all_timers returns (lines 293-296, 301)
RECURSIVE reset_all_timers_count(_, _)
reset_all_timers_count(cfg, i) ==
    IF i > Len(AppOrder) THEN 0
    ELSE LET p == AppOrder[i]
         IN  (IF p \in DOMAIN cfg /\ cfg[p].enabled /\ reset_app_timer_ret(cfg, p)
              THEN 1 ELSE 0) + reset_all_timers_count(cfg, i + 1)

\* the value update_app_usage returns (lines 212-214, 232)
update_app_usage_ret(cfg, p) == p \in DOMAIN cfg

\* what a call of the sink's method does, given the outcome nres the sink
\* itself would produce: the repository's send_custom takes no icon keyword
\* (TypeError), and None has no attribute send_custom (AttributeError)
SendCustomResult(kind, nres) ==
    IF kind = "stub" THEN nres ELSE "raises"

\* NotificationManager.send_limit_reached returns a bool and catches its errors
SendLimitReachedResult(kind, nres) ==
    IF kind = "stub" THEN nres
    ELSE IF nres = "true" THEN "true" ELSE "false"

\* --------------------------------------------------- the timer state machine
\* The working state of one tick, threaded through the calls of the loop body:
\* st, age, tot, warned are the monitor's four collections, d is db[today],
\* frz the device's frozen packages, calls the collaborator calls made so far,
\* raised whether an exception is propagating to the handler of _monitor_loop.

\* lines 193-212 of _enforce_limit, past the guard; act_ok is what the
\* actuator reports, nres what the sink does if it is called
Enforce(m, p, act_ok, nres) ==
      LET cfg     == config_apps[p]
          marked  == [m EXCEPT !.d = mark_limit_reached(m.d, p),
                               !.calls = Append(m.calls, Call("mark_limit_reached", p, "none"))]
          nr      == SendLimitReachedResult(notify, nres)
          told    == IF notify = "none" THEN marked
                     ELSE [marked EXCEPT
                             !.calls = Append(marked.calls, Call("send_limit_reached", p, nr)),
                             !.raised = (nr = "raises")]
          op      == IF cfg.action = "freeze" THEN "freeze_app" ELSE "kill_app"
          acted   == [told EXCEPT
                        !.calls = Append(told.calls,
                                         Call(op, p, IF act_ok THEN "true" ELSE "false")),
                        !.frz = IF act_ok /\ cfg.action = "freeze"
                                THEN told.frz \cup {p} ELSE told.frz]
      IN  IF told.raised THEN told
          ELSE IF act_ok THEN [acted EXCEPT !.st = Put(acted.st, p, BLOCKED)]
          ELSE acted

\* the dispatcher without its guard of lines 189-191
EnforceLimit_unguarded(m, p, act_ok, nres) == Enforce(m, p, act_ok, nres)

\* AppMonitor._enforce_limit(package, app_config)
EnforceLimit(m, p, act_ok, nres) ==
    IF p \in DOMAIN m.st /\ m.st[p] = BLOCKED THEN m
    ELSE Enforce(m, p, act_ok, nres)

\* lines 160-170 of _update_app_state: send the warning and set the flag
SendWarning(m, p, nres) ==
    LET nr == SendCustomResult(notify, nres)
    IN  IF nr = "raises"
        THEN [m EXCEPT !.calls = Append(m.calls, Call("send_custom", p, nr)),
                       !.raised = TRUE]
        ELSE [m EXCEPT !.calls = Append(m.calls, Call("send_custom", p, nr)),
                       !.warned = m.warned \cup {p}]

\* the warning without the test of _app_5min_warning_sent
WarningCheck_unflagged(m, p, nres) ==
    LET limit_seconds     == config_apps[p].limit_minutes * SecondsPerMinute
        remaining_seconds == limit_seconds - m.tot[p]
        remaining_minutes == seconds_to_minutes(remaining_seconds)
    IN  IF remaining_minutes <= WarningMinutes /\ remaining_minutes > 0
        THEN SendWarning(m, p, nres)
        ELSE m

\* lines 155-170 of _update_app_state: the 5-minute warning
WarningCheck(m, p, nres) ==
    LET limit_seconds     == config_apps[p].limit_minutes * SecondsPerMinute
        remaining_seconds == limit_seconds - m.tot[p]
        remaining_minutes == seconds_to_minutes(remaining_seconds)
    IN  IF remaining_minutes <= WarningMinutes /\ remaining_minutes > 0 /\ p \notin m.warned
        THEN SendWarning(m, p, nres)
        ELSE m

\* lines 172-174 of _update_app_state: the limit check of the active branch
LimitCheck(m, p, act_ok, nres) ==
    IF m.tot[p] >= config_apps[p].limit_minutes * SecondsPerMinute
    THEN EnforceLimit(m, p, act_ok, nres)
    ELSE m

\* the transition of a foregrounded app with a resume that starts the total
\* over, as the session start is
ActiveTransition_resume_restarts(m, p) ==
    LET current_state == IF p \in DOMAIN m.st THEN m.st[p] ELSE INACTIVE
    IN  IF current_state = BLOCKED THEN m
        ELSE IF current_state = PAUSED
        THEN [m EXCEPT !.st = Put(m.st, p, MONITORING), !.age = Put(m.age, p, Some(0)),
                       !.tot = Put(m.tot, p, 0)]
        ELSE IF current_state = MONITORING
        THEN IF m.age[p] # None
             THEN [m EXCEPT !.tot[p] = @ + int_elapsed(m.age[p][1]), !.age[p] = Some(0)]
             ELSE m
        ELSE [m EXCEPT !.st = Put(m.st, p, MONITORING), !.age = Put(m.age, p, Some(0))]

\* lines 134-153 of _update_app_state: the transition of a foregrounded app
ActiveTransition(m, p) ==
    LET current_state == IF p \in DOMAIN m.st THEN m.st[p] ELSE INACTIVE
    IN  IF current_state = BLOCKED THEN m
        ELSE IF current_state = PAUSED
        THEN [m EXCEPT !.st = Put(m.st, p, MONITORING), !.age = Put(m.age, p, Some(0))]
        ELSE IF current_state = MONITORING
        THEN IF m.age[p] # None
             THEN [m EXCEPT !.tot[p] = @ + int_elapsed(m.age[p][1]), !.age[p] = Some(0)]
             ELSE m
        ELSE [m EXCEPT !.st = Put(m.st, p, MONITORING), !.age = Put(m.age, p, Some(0))]

\* lines 175-185 of _update_app_state: the app is not the foreground app
InactiveTransition(m, p) ==
    LET current_state == IF p \in DOMAIN m.st THEN m.st[p] ELSE INACTIVE
    IN  IF current_state = MONITORING
        THEN IF m.age[p] # None
             THEN [m EXCEPT !.tot[p] = @ + int_elapsed(m.age[p][1]), !.age[p] = None,
                            !.st[p] = PAUSED]
             ELSE [m EXCEPT !.st[p] = PAUSED]
        ELSE m

\* AppMonitor._update_app_state(package, current_active)
UpdateAppState(m, p, current_active, act_ok, nres) ==
    IF m.raised THEN m
    ELSE IF p \notin DOMAIN config_apps \/ ~config_apps[p].enabled THEN m
    ELSE IF current_active = p
    THEN LET moved  == ActiveTransition(m, p)
             warned == WarningCheck(moved, p, nres)
         IN  IF warned.raised THEN warned ELSE LimitCheck(warned, p, act_ok, nres)
    ELSE InactiveTransition(m, p)

\* the loop "for package in get_all_apps(): _update_app_state(...)", in dict order
RECURSIVE UpdateAllFrom(_, _, _, _, _)
UpdateAllFrom(m, i, current_active, act_ok, nres) ==
    IF i > Len(AppOrder) THEN m
    ELSE UpdateAllFrom(UpdateAppState(m, AppOrder[i], current_active, act_ok, nres),
                       i + 1, current_active, act_ok, nres)

\* an _initialize_app_state that takes the ledger's minutes for seconds
InitializeAppState_unscaled(m, p) ==
    IF p \in DOMAIN m.st THEN m
    ELSE [m EXCEPT !.st = Put(m.st, p, INACTIVE), !.age = Put(m.age, p, None),
                   !.tot = Put(m.tot, p, get_total_usage(m.d, p))]

\* AppMonitor._initialize_app_state(package)
InitializeAppState(m, p) ==
    IF p \in DOMAIN m.st THEN m
    ELSE [m EXCEPT !.st = Put(m.st, p, INACTIVE), !.age = Put(m.age, p, None),
                   !.tot = Put(m.tot, p, get_total_usage(m.d, p) * SecondsPerMinute)]

\* the loop "for package in get_all_apps(): _initialize_app_state(package)"
RECURSIVE InitializeAllFrom(_, _)
InitializeAllFrom(m, i) ==
    IF i > Len(AppOrder) THEN m
    ELSE InitializeAllFrom(
            IF AppOrder[i] \notin DOMAIN config_apps THEN m
            ELSE InitializeAppState(m, AppOrder[i]), i + 1)

\* AppMonitor._update_total_usage: every tracked total, as whole minutes
RECURSIVE FlushFrom(_, _)
FlushFrom(m, i) ==
    IF i > Len(AppOrder) THEN m
    ELSE LET p == AppOrder[i]
         IN  FlushFrom(
                IF p \notin DOMAIN m.tot THEN m
                ELSE [m EXCEPT !.d = update_app_usage(m.d, config_apps, p,
                                                      seconds_to_minutes(m.tot[p]))],
                i + 1)

UpdateTotalUsage(m) == FlushFrom(m, 1)

\* ------------------------------------------------------------- daily reset
\* lines 95-97 of _monitor_loop: unfreeze every app whose action is freeze;
\* unf is the set of packages for which the actuator reports success
RECURSIVE UnfreezeFrom(_, _, _)
UnfreezeFrom(m, i, unf) ==
    IF i > Len(AppOrder) THEN m
    ELSE LET p == AppOrder[i]
         IN  UnfreezeFrom(
                IF p \in DOMAIN config_apps /\ config_apps[p].action = "freeze"
                THEN [m EXCEPT
                        !.calls = Append(m.calls,
                                         Call("unfreeze_app", p,
                                              IF p \in unf THEN "true" ELSE "false")),
                        !.frz = IF p \in unf THEN m.frz \ {p} ELSE m.frz]
                ELSE m,
                i + 1, unf)

\* a daily reset without the unfreeze loop of lines 95-97
DailyReset_no_unfreeze(m, unf) ==
    LET ledger == [m EXCEPT !.d = reset_all_timers(m.d, config_apps)]
    IN  [ledger EXCEPT !.tot = EmptyMap, !.age = EmptyMap, !.st = EmptyMap,
                       !.warned = {}]

\* lines 93-103 of _monitor_loop, taken when check_and_reset_daily() is True:
\* reset_all_timers on the ledger, the unfreezes, and the four clear() calls
DailyReset(m, unf) ==
    LET ledger   == [m EXCEPT !.d = reset_all_timers(m.d, config_apps)]
        unfrozen == UnfreezeFrom(ledger, 1, unf)
    IN  [unfrozen EXCEPT !.tot = EmptyMap, !.age = EmptyMap, !.st = EmptyMap,
                         !.warned = {}]

\* ------------------------------------------------------------------ actions
NoApp == "none"

\* DEFAULT_CONFIG as the module defines it (lines 11-23), the configuration
\* having been loaded from a valid file
Pristine == [apps |-> EmptyMap, shared |-> FALSE]

\* no scenario is run: the environment is free
NoScenario == [name |-> "none", phase |-> "none", t |-> 0, n |-> 0]

\* the packages for which a call of send_custom returned, among the calls cs
Delivered(cs) ==
    {cs[i].pkg : i \in {j \in 1..Len(cs) : cs[j].op = "send_custom" /\ cs[j].res # "raises"}}

\* what one of the two dumpsys commands of get_active_app gives: it failed
\* (non-zero exit, timeout or no output: _run_command returns (False, "")), its
\* output names no package, an exception is raised while it is run or parsed,
\* or its mCurrentFocus line names a package
CommandOutcomes == {"failed", "unfocused", "raises"} \cup Packages

\* a get_active_app that answers a failed query with the previous answer
get_active_app_stale(r1, r2) ==
    IF r1 = "raises" THEN last.fg
    ELSE LET out == IF r1 = "failed" THEN r2 ELSE r1
         IN  IF out \in {"failed", "raises"} THEN last.fg
             ELSE IF out = "unfocused" THEN NoApp
             ELSE out

\* ADBHandler.get_active_app: the second command is tried when the first
\* failed; None when both failed, when no package is named, and when an
\* exception was caught
get_active_app(r1, r2) ==
    IF r1 = "raises" THEN NoApp
    ELSE LET out == IF r1 = "failed" THEN r2 ELSE r1
         IN  IF out \in {"failed", "raises", "unfocused"} THEN NoApp
             ELSE out

\* the foreground query failed or timed out
ProbeFailed(r1, r2) == r1 = "raises" \/ (r1 = "failed" /\ r2 \in {"failed", "raises"})

\* the foreground probe's answers: a monitored package, or None
ProbeResults == {get_active_app(r1, r2) : r1, r2 \in CommandOutcomes}

\* the packages whose action is freeze
FreezeApps == {p \in DOMAIN config_apps : config_apps[p].action = "freeze"}

\* time.time() - _app_session_start[p] once time.time() has moved by dt.  The
\* state machine reads a session start only while the state is MONITORING
\* (lines 145, 179); the age of one kept in another state is not counted
AdvanceAge(dt) ==
    [p \in DOMAIN session_age |->
        IF session_age[p] = None THEN None
        ELSE IF app_states[p] = MONITORING THEN Some(session_age[p][1] + dt)
        ELSE Some(0)]

\* the callers of start() that may run concurrently
Callers == {"c1", "c2"}

\* start() has returned and its one thread is in the loop, with no other call
\* of start() or stop() under way
Started ==
    /\ running = TRUE
    /\ loops = <<"body">>
    /\ starts = [c \in Callers |-> "idle"]
    /\ pending = None

\* the configurations explored
InitConfigs ==
    { ("a" :> [limit_minutes |-> 6, enabled |-> TRUE, action |-> "kill"]) @@
      ("b" :> [limit_minutes |-> 1, enabled |-> TRUE, action |-> "freeze"]),
      ("a" :> [limit_minutes |-> 1, enabled |-> TRUE, action |-> "freeze"]) @@
      ("b" :> [limit_minutes |-> 6, enabled |-> FALSE, action |-> "freeze"]) }

\* AppMonitor.__init__ on a configuration whose apps were added today and
\* that was never reset, followed by start()
Init ==
    /\ config_apps \in InitConfigs
    /\ reset_due = TRUE
    /\ db = [p \in DOMAIN config_apps |-> ZeroRecord(config_apps[p].limit_minutes)]
    /\ app_states = EmptyMap
    /\ session_age = EmptyMap
    /\ app_total_seconds = EmptyMap
    /\ warning_sent = {}
    /\ notify \in NotifyKinds
    /\ loop_alive = TRUE
    /\ frozen = {}
    /\ calls = <<>>
    /\ last = [op |-> "init", pkg |-> NoApp, fg |-> NoApp, rolled |-> FALSE, ret |-> 0,
            unblocked |-> {}]
    /\ warned_log = {}
    /\ DEFAULT_CONFIG = Pristine
    /\ scn = NoScenario
    /\ Started

\* a tick whose daily reset resets the ledger and unfreezes but leaves the
\* timers of the day before in place
TickResult_keeps_timers(dt, current_active, act_ok, nres, unf) ==
    LET m0 == [st |-> app_states, age |-> AdvanceAge(dt), tot |-> app_total_seconds,
               warned |-> warning_sent, d |-> db, frz |-> frozen, calls |-> <<>>,
               raised |-> FALSE]
        m1 == IF reset_due
              THEN [DailyReset(m0, unf) EXCEPT !.st = m0.st, !.age = m0.age, !.tot = m0.tot]
              ELSE m0
        m2 == InitializeAllFrom(m1, 1)
        m3 == UpdateAllFrom(m2, 1, current_active, act_ok, nres)
    IN  IF m3.raised THEN m3 ELSE UpdateTotalUsage(m3)

\* the body of the while loop of _monitor_loop (lines 91-117), dt time units
\* after the previous one: current_active is the probe's answer, act_ok what
\* kill_app / freeze_app reports, nres what the sink does, unf the packages
\* whose unfreeze succeeds
TickResult(dt, current_active, act_ok, nres, unf) ==
    LET m0 == [st |-> app_states, age |-> AdvanceAge(dt), tot |-> app_total_seconds,
               warned |-> warning_sent, d |-> db, frz |-> frozen, calls |-> <<>>,
               raised |-> FALSE]
        m1 == IF reset_due THEN DailyReset(m0, unf) ELSE m0
        m2 == InitializeAllFrom(m1, 1)
        m3 == UpdateAllFrom(m2, 1, current_active, act_ok, nres)
    IN  IF m3.raised THEN m3 ELSE UpdateTotalUsage(m3)

\* the ticks explored: none that carries a running timer out of the bounds
TickBound(dt) ==
    \A p \in DOMAIN app_states :
        (app_states[p] = MONITORING /\ session_age[p] # None /\ p \in DOMAIN config_apps)
           => LET total == app_total_seconds[p] + int_elapsed(session_age[p][1] + dt)
              IN  /\ total <= config_apps[p].limit_minutes * SecondsPerMinute + MaxOverrun
                  /\ total >= -MaxOverrun

\* the state a tick leaves, m being the working state at its end
TickEffect(m, current_active) ==
    /\ app_states' = m.st
    /\ session_age' = m.age
    /\ app_total_seconds' = m.tot
    /\ warning_sent' = m.warned
    /\ db' = m.d
    /\ frozen' = m.frz
    /\ calls' = m.calls
    /\ last' = [op |-> "tick", pkg |-> NoApp, fg |-> current_active,
                rolled |-> reset_due, ret |-> 0,
                unblocked |-> IF reset_due
                              THEN {p \in DOMAIN app_states : app_states[p] = BLOCKED}
                              ELSE {}]
    /\ warned_log' = (IF reset_due THEN {} ELSE warned_log) \cup Delivered(m.calls)
    /\ reset_due' = FALSE
    /\ UNCHANGED <<config_apps, notify>>

\* one tick of the one thread of a started monitor; an exception ends the thread
Tick(dt, current_active, act_ok, nres, unf) ==
    /\ loop_alive
    /\ TickBound(dt)
    /\ \E m \in {TickResult(dt, current_active, act_ok, nres, unf)} :
           /\ TickEffect(m, current_active)
           /\ loop_alive' = ~m.raised

\* AppMonitor.reset_app(package), as one step
reset_app(m, p) ==
    IF p \in DOMAIN m.tot
    THEN [m EXCEPT !.tot[p] = 0,
                   !.age = Put(m.age, p, None),
                   !.st = Put(m.st, p, INACTIVE),
                   !.d = reset_app_timer(m.d, config_apps, p),
                   !.ret = m.ret + 1]
    ELSE m

\* AppMonitor.reset_all: reset_app over list(_app_total_seconds.keys())
RECURSIVE reset_all_from(_, _)
reset_all_from(m, i) ==
    IF i > Len(AppOrder) THEN m
    ELSE reset_all_from(reset_app(m, AppOrder[i]), i + 1)

ResetApp(p) ==
    /\ scn = NoScenario
    /\ \E m \in {reset_app([st |-> app_states, age |-> session_age,
                              tot |-> app_total_seconds, d |-> db, ret |-> 0], p)} :
           /\ app_states' = m.st
           /\ session_age' = m.age
           /\ app_total_seconds' = m.tot
           /\ db' = m.d
           /\ last' = [op |-> "reset_app", pkg |-> p, fg |-> NoApp, rolled |-> FALSE,
                       ret |-> m.ret, unblocked |-> {}]
    /\ calls' = <<>>
    /\ UNCHANGED <<config_apps, reset_due, warning_sent, notify, loop_alive, frozen,
                   warned_log, scn>>
    /\ UNCHANGED lifecycle
    /\ UNCHANGED DEFAULT_CONFIG

ResetAll ==
    /\ scn = NoScenario
    /\ \E m \in {reset_all_from([st |-> app_states, age |-> session_age,
                                   tot |-> app_total_seconds, d |-> db, ret |-> 0], 1)} :
           /\ app_states' = m.st
           /\ session_age' = m.age
           /\ app_total_seconds' = m.tot
           /\ db' = m.d
           /\ last' = [op |-> "reset_all", pkg |-> NoApp, fg |-> NoApp, rolled |-> FALSE,
                       ret |-> m.ret, unblocked |-> {}]
    /\ calls' = <<>>
    /\ UNCHANGED <<config_apps, reset_due, warning_sent, notify, loop_alive, frozen,
                   warned_log, scn>>
    /\ UNCHANGED lifecycle
    /\ UNCHANGED DEFAULT_CONFIG

\* the calendar day changes: get_today_date() no longer equals last_reset_date
\* and db[today] is the new day's, still empty, dict
Midnight ==
    /\ scn = NoScenario
    /\ reset_due' = TRUE
    /\ db' = EmptyMap
    /\ calls' = <<>>
    /\ last' = [op |-> "midnight", pkg |-> NoApp, fg |-> NoApp, rolled |-> FALSE, ret |-> 0,
            unblocked |-> {}]
    /\ UNCHANGED <<config_apps, app_states, session_age, app_total_seconds, warning_sent,
                   notify, loop_alive, frozen, warned_log, scn>>
    /\ UNCHANGED lifecycle
    /\ UNCHANGED DEFAULT_CONFIG

\* the process ends and is started again: a new AppMonitor (lines 23-40) over
\* the persisted configuration and ledger, and start()
Restart ==
    /\ scn = NoScenario
    /\ app_states' = EmptyMap
    /\ session_age' = EmptyMap
    /\ app_total_seconds' = EmptyMap
    /\ warning_sent' = {}
    /\ loop_alive' = TRUE
    /\ calls' = <<>>
    /\ last' = [op |-> "restart", pkg |-> NoApp, fg |-> NoApp, rolled |-> FALSE, ret |-> 0,
            unblocked |-> {}]
    /\ warned_log' = {}
    /\ UNCHANGED <<config_apps, reset_due, db, notify, frozen, scn>>
    /\ UNCHANGED lifecycle
    /\ UNCHANGED DEFAULT_CONFIG

\* the outcomes that can matter on a tick: the actuator and the sink are
\* called for the foreground app only, unfreeze on a daily reset only, and only
\* a sink that is not the repository's can raise from send_limit_reached
ActChoices(current_active) == IF current_active = NoApp THEN {TRUE} ELSE BOOLEAN
NresChoices(current_active) ==
    IF current_active = NoApp \/ notify = "none" THEN {"true"}
    ELSE IF notify = "manager" THEN {"true", "false"}
    ELSE NotifyOutcomes
UnfChoices == IF reset_due THEN SUBSET FreezeApps ELSE {{}}

TickStep ==
    /\ scn = NoScenario
    /\ \E dt \in DtSet \cup ClockSetBack, current_active \in ProbeResults :
         \E act_ok \in ActChoices(current_active), nres \in NresChoices(current_active),
            unf \in UnfChoices :
           Tick(dt, current_active, act_ok, nres, unf)
    /\ UNCHANGED scn
    /\ UNCHANGED lifecycle
    /\ UNCHANGED DEFAULT_CONFIG

ResetAppStep == \E p \in Packages : ResetApp(p)

\* ---------------------------------------------------------------- scenarios
\* A scenario fixes the configuration and scripts the environment (the tick
\* times and the probe's answers); the code is the same Tick.
\* scn.t is the time, in seconds, of the last tick since the phase began.

\* the longest background period of scenario B, in ticks
MaxBgTicks == 3

\* Scenario A: one app, limit 10 minutes, action kill, sampled every 5 seconds
\* and foregrounded continuously from t = 0; the actuator reports success
ScenarioAInit ==
    /\ config_apps = ("a" :> [limit_minutes |-> 10, enabled |-> TRUE, action |-> "kill"])
    /\ reset_due = TRUE
    /\ db = [p \in DOMAIN config_apps |-> ZeroRecord(config_apps[p].limit_minutes)]
    /\ app_states = EmptyMap
    /\ session_age = EmptyMap
    /\ app_total_seconds = EmptyMap
    /\ warning_sent = {}
    /\ notify \in NotifyKinds
    /\ loop_alive = TRUE
    /\ frozen = {}
    /\ calls = <<>>
    /\ last = [op |-> "init", pkg |-> NoApp, fg |-> NoApp, rolled |-> FALSE, ret |-> 0,
            unblocked |-> {}]
    /\ warned_log = {}
    /\ DEFAULT_CONFIG = Pristine
    /\ scn = [name |-> "A", phase |-> "start", t |-> 0, n |-> 0]
    /\ Started

\* the next sample of scenario A; once the loop's thread has ended, time goes
\* on and nothing samples
ScenarioAStep ==
    /\ scn.name = "A"
    /\ scn.phase = "start" \/ scn.t + 5 <= 10 * SecondsPerMinute
    /\ \/ /\ loop_alive
          /\ \E nres \in NresChoices("a") : Tick(5 * Res, "a", TRUE, nres, {})
       \/ /\ ~loop_alive
          /\ calls' = <<>>
          /\ last' = [op |-> "idle", pkg |-> NoApp, fg |-> "a", rolled |-> FALSE, ret |-> 0,
            unblocked |-> {}]
          /\ UNCHANGED <<config_apps, reset_due, db, app_states, session_age,
                         app_total_seconds, warning_sent, notify, loop_alive, frozen,
                         warned_log>>
    /\ scn' = [scn EXCEPT !.phase = "run",
                          !.t = IF scn.phase = "start" THEN 0 ELSE scn.t + 5]
    /\ UNCHANGED lifecycle
    /\ UNCHANGED DEFAULT_CONFIG

\* Scenario B: one app, limit 30 minutes, ticks at whole seconds (5 or 6
\* seconds apart); the app is foregrounded for 5 minutes (from the tick that
\* first sees it to the tick, 300 seconds later, that first misses it), stays
\* in the background for up to MaxBgTicks more ticks, is foregrounded for 5
\* more minutes, and is backgrounded
ScenarioBInit ==
    /\ config_apps = ("b" :> [limit_minutes |-> 30, enabled |-> TRUE, action |-> "kill"])
    /\ reset_due = TRUE
    /\ db = [p \in DOMAIN config_apps |-> ZeroRecord(config_apps[p].limit_minutes)]
    /\ app_states = EmptyMap
    /\ session_age = EmptyMap
    /\ app_total_seconds = EmptyMap
    /\ warning_sent = {}
    /\ notify \in NotifyKinds
    /\ loop_alive = TRUE
    /\ frozen = {}
    /\ calls = <<>>
    /\ last = [op |-> "init", pkg |-> NoApp, fg |-> NoApp, rolled |-> FALSE, ret |-> 0,
            unblocked |-> {}]
    /\ warned_log = {}
    /\ DEFAULT_CONFIG = Pristine
    /\ scn = [name |-> "B", phase |-> "start", t |-> 0, n |-> 0]
    /\ Started

ScenarioBStep ==
    /\ scn.name = "B"
    /\ UNCHANGED lifecycle
    /\ UNCHANGED DEFAULT_CONFIG
    /\ \E gap \in {5, 6} :
         \/ /\ scn.phase = "start"
            /\ Tick(gap * Res, "b", TRUE, "true", {})
            /\ scn' = [scn EXCEPT !.phase = "fg1", !.t = 0]
         \/ /\ scn.phase \in {"fg1", "fg2"}
            /\ scn.t + gap < 5 * SecondsPerMinute
            /\ Tick(gap * Res, "b", TRUE, "true", {})
            /\ scn' = [scn EXCEPT !.t = scn.t + gap]
         \/ /\ scn.phase \in {"fg1", "fg2"}
            /\ scn.t + gap = 5 * SecondsPerMinute
            /\ Tick(gap * Res, NoApp, TRUE, "true", {})
            /\ scn' = [scn EXCEPT !.phase = IF scn.phase = "fg1" THEN "bg" ELSE "done",
                                  !.t = 0]
         \/ /\ scn.phase = "bg"
            /\ scn.n < MaxBgTicks
            /\ Tick(gap * Res, NoApp, TRUE, "true", {})
            /\ scn' = [scn EXCEPT !.n = scn.n + 1]
         \/ /\ scn.phase = "bg"
            /\ Tick(gap * Res, "b", TRUE, "true", {})
            /\ scn' = [scn EXCEPT !.phase = "fg2", !.t = 0]

\* ----------------------------------------------------------- specifications
Next ==
    \/ TickStep
    \/ ResetAppStep
    \/ ResetAll
    \/ Midnight
    \/ Restart
    \/ ScenarioAStep
    \/ ScenarioBStep

Spec == (Init \/ ScenarioAInit \/ ScenarioBInit) /\ [][Next]_vars

\* the same program with an actuator that always reports success
TickStepActuatorOk ==
    /\ scn = NoScenario
    /\ \E dt \in DtSet \cup ClockSetBack, current_active \in ProbeResults :
         \E nres \in NresChoices(current_active) :
           Tick(dt, current_active, TRUE, nres, IF reset_due THEN FreezeApps ELSE {})
    /\ UNCHANGED scn
    /\ UNCHANGED lifecycle
    /\ UNCHANGED DEFAULT_CONFIG

NextActuatorOk ==
    \/ TickStepActuatorOk
    \/ ResetAppStep
    \/ ResetAll
    \/ Midnight
    \/ Restart

SpecActuatorOk == Init /\ [][NextActuatorOk]_vars


\* ------------------------------------------ a tick interleaved with a reset
\* _monitor_loop takes no lock (lines 88-117), so that reset_app and reset_all,
\* which run in the caller's thread, can run between two statements of a tick.
\* SpecInterleaved splits the tick at one place, inside line 147
\*     self._app_total_seconds[package] += int(elapsed)
\* between the load of the total and its store, for the first application of
\* the dict when it is foregrounded and MONITORING; every other tick, and the
\* resets, are taken as one step.

\* the ticks of a quiet environment: an actuator that succeeds and a sink that
\* returns True
QuietTickStep ==
    /\ scn = NoScenario
    /\ pending = None
    /\ \E dt \in DtSet, current_active \in ProbeResults :
          Tick(dt, current_active, TRUE, "true", IF reset_due THEN FreezeApps ELSE {})
    /\ UNCHANGED scn
    /\ UNCHANGED lifecycle
    /\ UNCHANGED DEFAULT_CONFIG

FirstApp == AppOrder[1]

\* a tick with FirstApp in the foreground, from line 93 to the load of line
\* 147: no daily reset, lines 109-110 find every application tracked, line 128
\* reads MONITORING, line 146 computes elapsed
TickBegin(dt) ==
    /\ scn = NoScenario
    /\ loop_alive
    /\ pending = None
    /\ ~reset_due
    /\ TickBound(dt)
    /\ \A q \in DOMAIN config_apps : q \in DOMAIN app_states
    /\ config_apps[FirstApp].enabled
    /\ app_states[FirstApp] = MONITORING
    /\ session_age[FirstApp] # None
    /\ session_age' = AdvanceAge(dt)
    /\ pending' = Some([pkg |-> FirstApp,
                        elapsed |-> int_elapsed(session_age[FirstApp][1] + dt),
                        read |-> app_total_seconds[FirstApp], line |-> 147])
    /\ calls' = <<>>
    /\ last' = [op |-> "tick_begin", pkg |-> NoApp, fg |-> FirstApp, rolled |-> FALSE,
                ret |-> 0, unblocked |-> {}]
    /\ UNCHANGED <<DEFAULT_CONFIG, config_apps, reset_due, db, app_states,
                   app_total_seconds,
                   warning_sent, notify, loop_alive, frozen, warned_log, scn,
                   running, loops, starts>>

TickBeginStep == \E dt \in DtSet : TickBegin(dt)

\* the rest of that tick: the store of line 147, line 148, lines 155-174, the
\* other applications (lines 113-114) and line 116
TickEndResult(act_ok, nres) ==
    LET p  == pending[1].pkg
        m0 == [st |-> app_states, age |-> session_age, tot |-> app_total_seconds,
               warned |-> warning_sent, d |-> db, frz |-> frozen, calls |-> <<>>,
               raised |-> FALSE]
        m1 == [m0 EXCEPT !.tot = Put(m0.tot, p, pending[1].read + pending[1].elapsed),
                         !.age = Put(m0.age, p, Some(0))]
        m2 == WarningCheck(m1, p, nres)
        m3 == IF m2.raised THEN m2 ELSE LimitCheck(m2, p, act_ok, nres)
        m4 == UpdateAllFrom(m3, 2, p, act_ok, nres)
    IN  IF m4.raised THEN m4 ELSE UpdateTotalUsage(m4)

TickEnd ==
    /\ pending # None
    /\ pending[1].line = 147
    /\ \E m \in {TickEndResult(TRUE, "true")} :
          /\ TickEffect(m, pending[1].pkg)
          /\ loop_alive' = ~m.raised
    /\ pending' = None
    /\ UNCHANGED <<DEFAULT_CONFIG, scn, running, loops, starts>>

\* a tick with FirstApp in the foreground and no daily reset, on which the
\* limit of FirstApp is reached: the working state when _enforce_limit has
\* made its calls and the actuator has returned True (line 211)
EnforceBeginResult(dt) ==
    LET m0 == [st |-> app_states, age |-> AdvanceAge(dt), tot |-> app_total_seconds,
               warned |-> warning_sent, d |-> db, frz |-> frozen, calls |-> <<>>,
               raised |-> FALSE]
        m1 == InitializeAllFrom(m0, 1)
    IN  UpdateAppState(m1, FirstApp, FirstApp, TRUE, "true")

\* that tick, from line 93 to line 211: the store of line 212 is still to come
EnforceBegin(dt) ==
    /\ scn = NoScenario
    /\ loop_alive
    /\ pending = None
    /\ ~reset_due
    /\ TickBound(dt)
    /\ FirstApp \in DOMAIN app_states
    /\ app_states[FirstApp] # BLOCKED
    /\ \E m \in {EnforceBeginResult(dt)} :
          /\ ~m.raised
          /\ m.st[FirstApp] = BLOCKED
          /\ app_states' = [m.st EXCEPT ![FirstApp] = MONITORING]
          /\ session_age' = m.age
          /\ app_total_seconds' = m.tot
          /\ warning_sent' = m.warned
          /\ db' = m.d
          /\ frozen' = m.frz
          /\ calls' = m.calls
          /\ warned_log' = warned_log \cup Delivered(m.calls)
    /\ pending' = Some([pkg |-> FirstApp, elapsed |-> 0, read |-> 0, line |-> 212])
    /\ last' = [op |-> "tick_begin", pkg |-> NoApp, fg |-> FirstApp, rolled |-> FALSE,
                ret |-> 0, unblocked |-> {}]
    /\ UNCHANGED <<DEFAULT_CONFIG, config_apps, reset_due, notify, loop_alive, scn,
                   running, loops, starts>>

EnforceBeginStep == \E dt \in DtSet : EnforceBegin(dt)

\* the rest of that tick: the store of line 212, the other applications
\* (lines 113-114) and line 116
EnforceEndResult(act_ok, nres) ==
    LET p  == pending[1].pkg
        m0 == [st |-> app_states, age |-> session_age, tot |-> app_total_seconds,
               warned |-> warning_sent, d |-> db, frz |-> frozen, calls |-> <<>>,
               raised |-> FALSE]
        m1 == [m0 EXCEPT !.st = Put(m0.st, p, BLOCKED)]
        m2 == UpdateAllFrom(m1, 2, p, act_ok, nres)
    IN  IF m2.raised THEN m2 ELSE UpdateTotalUsage(m2)

EnforceEnd ==
    /\ pending # None
    /\ pending[1].line = 212
    /\ \E m \in {EnforceEndResult(TRUE, "true")} :
          /\ TickEffect(m, pending[1].pkg)
          /\ loop_alive' = ~m.raised
    /\ pending' = None
    /\ UNCHANGED <<DEFAULT_CONFIG, scn, running, loops, starts>>

InterleavedInit == Init /\ notify = "stub"

NextInterleaved ==
    \/ QuietTickStep
    \/ TickBeginStep
    \/ TickEnd
    \/ EnforceBeginStep
    \/ EnforceEnd
    \/ ResetAppStep
    \/ ResetAll

SpecInterleaved == InterleavedInit /\ [][NextInterleaved]_vars

\* ------------------------------------------- a configuration that changes
\* SpecReconfigured: the monitor of a quiet environment (the actuator and the
\* sink succeed) whose ConfigManager is told, between two ticks, to disable
\* an application.

\* ConfigManager.enable_app(package, enabled) on the monitor's ConfigManager
SetEnabled(p, enabled) ==
    /\ scn = NoScenario
    /\ p \in DOMAIN config_apps
    /\ config_apps' = [config_apps EXCEPT ![p].enabled = enabled]
    /\ calls' = <<>>
    /\ last' = [op |-> "enable_app", pkg |-> p, fg |-> NoApp, rolled |-> FALSE, ret |-> 1,
                unblocked |-> {}]
    /\ UNCHANGED <<reset_due, db, app_states, session_age, app_total_seconds,
                   warning_sent, notify, loop_alive, frozen, warned_log, scn>>
    /\ UNCHANGED lifecycle
    /\ UNCHANGED DEFAULT_CONFIG

SetEnabledStep == \E p \in Packages : SetEnabled(p, FALSE)

\* the durations between two ticks explored
LifecycleDt == {30 * Res, 150 * Res}

\* a tick of the quiet environment
ReconfiguredTickStep ==
    /\ scn = NoScenario
    /\ \E dt \in LifecycleDt, current_active \in ProbeResults :
          Tick(dt, current_active, TRUE, "true", IF reset_due THEN FreezeApps ELSE {})
    /\ UNCHANGED scn
    /\ UNCHANGED lifecycle
    /\ UNCHANGED DEFAULT_CONFIG

NextReconfigured ==
    \/ ReconfiguredTickStep
    \/ ResetAppStep
    \/ SetEnabledStep

\* both applications enabled at first
ReconfiguredInit == InterleavedInit /\ \A p \in DOMAIN config_apps : config_apps[p].enabled

SpecReconfigured == ReconfiguredInit /\ [][NextReconfigured]_vars

\* SpecToggled: the same monitor when an application can be disabled and
\* enabled again between two ticks, and the calendar day can change.
ToggleStep == \E p \in Packages, enabled \in BOOLEAN : SetEnabled(p, enabled)

ToggledTickStep ==
    /\ scn = NoScenario
    /\ \E current_active \in ProbeResults :
          Tick(CheckInterval * Res, current_active, TRUE, "true",
               IF reset_due THEN FreezeApps ELSE {})
    /\ UNCHANGED scn
    /\ UNCHANGED lifecycle
    /\ UNCHANGED DEFAULT_CONFIG

NextToggled ==
    \/ ToggledTickStep
    \/ ToggleStep
    \/ Midnight

\* one application added today, enabled, a sink that accepts every call
ToggledInit ==
    /\ config_apps = ("a" :> [limit_minutes |-> 1, enabled |-> TRUE, action |-> "freeze"])
    /\ reset_due = TRUE
    /\ db = [p \in DOMAIN config_apps |-> ZeroRecord(config_apps[p].limit_minutes)]
    /\ app_states = EmptyMap
    /\ session_age = EmptyMap
    /\ app_total_seconds = EmptyMap
    /\ warning_sent = {}
    /\ notify = "stub"
    /\ loop_alive = TRUE
    /\ frozen = {}
    /\ calls = <<>>
    /\ last = [op |-> "init", pkg |-> NoApp, fg |-> NoApp, rolled |-> FALSE, ret |-> 0,
            unblocked |-> {}]
    /\ warned_log = {}
    /\ DEFAULT_CONFIG = Pristine
    /\ scn = NoScenario
    /\ Started

SpecToggled == ToggledInit /\ [][NextToggled]_vars

\* ------------------------------------------------------ start() and stop()
\* SpecLifecycle: one configured application, callers of start() and stop()
\* in other threads, and the loop threads they create.  A loop thread is at
\* "top" (sleeping, or about to evaluate the while condition of line 91), in
\* "body" (it found _running true and is executing lines 92-117) or "exited".
\* The sections under self._lock (lines 64-68, 75-77) are single steps.

\* threads explored
MaxThreads == 2

\* the thread that calls stop()
Stopper == "s"

\* a monitor constructed (lines 23-40) and not started
LifecycleInit ==
    /\ config_apps = ("a" :> [limit_minutes |-> 6, enabled |-> TRUE, action |-> "kill"])
    /\ reset_due = TRUE
    /\ db = [p \in DOMAIN config_apps |-> ZeroRecord(config_apps[p].limit_minutes)]
    /\ app_states = EmptyMap
    /\ session_age = EmptyMap
    /\ app_total_seconds = EmptyMap
    /\ warning_sent = {}
    /\ notify \in {"manager", "stub"}
    /\ loop_alive = TRUE
    /\ frozen = {}
    /\ calls = <<>>
    /\ last = [op |-> "init", pkg |-> NoApp, fg |-> NoApp, rolled |-> FALSE, ret |-> 0,
            unblocked |-> {}]
    /\ warned_log = {}
    /\ DEFAULT_CONFIG = Pristine
    /\ scn = NoScenario
    /\ running = FALSE
    /\ loops = <<>>
    /\ starts = [c \in Callers \cup {Stopper} |-> "idle"]
    /\ pending = None

\* start(), lines 61-62: the test of _running, before the lock is taken
StartCheck(c) ==
    /\ starts[c] = "idle"
    /\ starts' = [starts EXCEPT ![c] = IF running THEN "idle" ELSE "checked"]
    /\ UNCHANGED <<DEFAULT_CONFIG, config_apps, reset_due, db, app_states, session_age,
                   app_total_seconds, warning_sent, notify, loop_alive, frozen,
                   calls, last, warned_log, scn, running, loops, pending>>

\* start(), lines 64-68, under the lock: set the flag, create and start a thread
StartLocked(c) ==
    /\ starts[c] = "checked"
    /\ Len(loops) < MaxThreads
    /\ running' = TRUE
    /\ loops' = Append(loops, "top")
    /\ starts' = [starts EXCEPT ![c] = "idle"]
    /\ UNCHANGED <<DEFAULT_CONFIG, config_apps, reset_due, db, app_states, session_age,
                   app_total_seconds, warning_sent, notify, loop_alive, frozen,
                   calls, last, warned_log, scn, pending>>

\* stop(), lines 72-77: return if not running; under the lock clear the flag
\* and flush; the caller then waits in the join of lines 79-80
Stop ==
    /\ starts[Stopper] = "idle"
    /\ running
    /\ running' = FALSE
    /\ starts' = [starts EXCEPT ![Stopper] = "joining"]
    /\ \E m \in {UpdateTotalUsage([tot |-> app_total_seconds, d |-> db])} : db' = m.d
    /\ calls' = <<>>
    /\ last' = [op |-> "stop", pkg |-> NoApp, fg |-> NoApp, rolled |-> FALSE, ret |-> 0,
            unblocked |-> {}]
    /\ UNCHANGED <<DEFAULT_CONFIG, config_apps, reset_due, app_states, session_age,
                   app_total_seconds,
                   warning_sent, notify, loop_alive, frozen, warned_log, scn, loops,
                   pending>>

\* stop(), lines 79-82: join(timeout=5) returns, because the thread has ended
\* or because 5 seconds have passed (a tick's device calls can take longer);
\* stop() then logs "Monitor stopped" and returns None in either case
StopReturns ==
    /\ starts[Stopper] = "joining"
    /\ starts' = [starts EXCEPT ![Stopper] = "idle"]
    /\ calls' = <<>>
    /\ last' = [op |-> "stop_returned", pkg |-> NoApp, fg |-> NoApp, rolled |-> FALSE,
                ret |-> "stopped", unblocked |-> {}]
    /\ UNCHANGED <<DEFAULT_CONFIG, config_apps, reset_due, db, app_states, session_age,
                   app_total_seconds, warning_sent, notify, loop_alive, frozen,
                   warned_log, scn, running, loops, pending>>

\* a loop thread that always goes on, whatever the flag
LoopTop_unchecked(t) ==
    /\ t \in 1..Len(loops)
    /\ loops[t] = "top"
    /\ loops' = [loops EXCEPT ![t] = "body"]
    /\ UNCHANGED <<DEFAULT_CONFIG, config_apps, reset_due, db, app_states, session_age,
                   app_total_seconds, warning_sent, notify, loop_alive, frozen,
                   calls, last, warned_log, scn, running, starts, pending>>

\* line 91: "while self._running", after the sleep of line 117 if any
LoopTop(t) ==
    /\ t \in 1..Len(loops)
    /\ loops[t] = "top"
    /\ loops' = [loops EXCEPT ![t] = IF running THEN "body" ELSE "exited"]
    /\ UNCHANGED <<DEFAULT_CONFIG, config_apps, reset_due, db, app_states, session_age,
                   app_total_seconds, warning_sent, notify, loop_alive, frozen,
                   calls, last, warned_log, scn, running, starts, pending>>

\* lines 92-117 by thread t, and lines 119-120 when an exception is raised
LoopBody(t) ==
    /\ t \in 1..Len(loops)
    /\ loops[t] = "body"
    /\ \E dt \in LifecycleDt, current_active \in {"a", NoApp} :
          /\ TickBound(dt)
          /\ \E m \in {TickResult(dt, current_active, TRUE, "true", {})} :
                /\ TickEffect(m, current_active)
                /\ loops' = [loops EXCEPT ![t] = IF m.raised THEN "exited" ELSE "top"]
    /\ UNCHANGED <<DEFAULT_CONFIG, loop_alive, scn, running, starts, pending>>

StartCheckStep == \E c \in Callers : StartCheck(c)
StartLockedStep == \E c \in Callers : StartLocked(c)
LoopTopStep == \E t \in 1..MaxThreads : LoopTop(t)
LoopBodyStep == \E t \in 1..MaxThreads : LoopBody(t)

NextLifecycle ==
    \/ StartCheckStep
    \/ StartLockedStep
    \/ Stop
    \/ StopReturns
    \/ LoopTopStep
    \/ LoopBodyStep

\* thread t leaves the loop body: the step LoopBody(t) seen on the thread's
\* position alone
LoopBodyEnds(t) ==
    /\ t \in 1..Len(loops)
    /\ loops[t] = "body"
    /\ loops' \in {[loops EXCEPT ![t] = "top"], [loops EXCEPT ![t] = "exited"]}

\* every loop thread is scheduled again and again: the sleep of line 117 ends,
\* and the calls of the body return or raise
LoopFairness ==
    \A t \in 1..MaxThreads : WF_vars(LoopTop(t)) /\ WF_loops(LoopBodyEnds(t))

SpecLifecycle == LifecycleInit /\ [][NextLifecycle]_vars /\ LoopFairness

\* ------------------------------------------------------------- the ledger
\* SpecLedger: the ConfigManager alone, its methods called in any order on a
\* configuration that starts with no application.  The monitor is constructed
\* and never started; last records the call and, for update_app_usage and
\* reset_all_timers, its arguments and what it returned.

\* minutes of usage explored
MaxMinutes == 2

\* the limits explored
LedgerLimits == {1, 3}

LedgerInit ==
    /\ config_apps = EmptyMap
    /\ reset_due = TRUE
    /\ db = EmptyMap
    /\ app_states = EmptyMap
    /\ session_age = EmptyMap
    /\ app_total_seconds = EmptyMap
    /\ warning_sent = {}
    /\ notify = "stub"
    /\ loop_alive = FALSE
    /\ frozen = {}
    /\ calls = <<>>
    /\ last = [op |-> "init", pkg |-> NoApp, arg |-> 0, ret |-> FALSE]
    /\ warned_log = {}
    /\ DEFAULT_CONFIG = Pristine
    /\ scn = NoScenario
    /\ running = FALSE
    /\ loops = <<>>
    /\ starts = [c \in Callers |-> "idle"]
    /\ pending = None

\* a ConfigManager call that leaves configuration cfg, today's records d and
\* due, whether last_reset_date differs from today.  The calls change
\* self.config["apps"] in place: when that dict is DEFAULT_CONFIG["apps"]
\* itself, the module's default changes with it
LedgerCallDue(op, p, arg, ret, cfg, d, due) ==
    /\ config_apps' = cfg
    /\ DEFAULT_CONFIG' = IF DEFAULT_CONFIG.shared
                         THEN [DEFAULT_CONFIG EXCEPT !.apps = cfg]
                         ELSE DEFAULT_CONFIG
    /\ db' = d
    /\ reset_due' = due
    /\ last' = [op |-> op, pkg |-> p, arg |-> arg, ret |-> ret]
    /\ calls' = <<>>
    /\ UNCHANGED <<app_states, session_age, app_total_seconds,
                   warning_sent, notify, loop_alive, frozen, warned_log, scn>>
    /\ UNCHANGED lifecycle

\* a call that does not write last_reset_date
LedgerCall(op, p, arg, ret, cfg, d) == LedgerCallDue(op, p, arg, ret, cfg, d, reset_due)

\* a call of which only the name is recorded
LedgerOther(op, cfg, d) == LedgerCall(op, NoApp, 0, FALSE, cfg, d)

\* ConfigManager.add_app, lines 101-132
AddApp(p, limit_minutes, enabled) ==
    IF p \in DOMAIN config_apps
    THEN LedgerOther("add_app", config_apps, db)
    ELSE LedgerOther("add_app",
                    Put(config_apps, p, [limit_minutes |-> limit_minutes,
                                         enabled |-> enabled, action |-> "kill"]),
                    Put(db, p, ZeroRecord(limit_minutes)))

\* ConfigManager.remove_app, lines 134-142
RemoveApp(p) ==
    IF p \notin DOMAIN config_apps
    THEN LedgerOther("remove_app", config_apps, db)
    ELSE LedgerOther("remove_app",
                    [q \in DOMAIN config_apps \ {p} |-> config_apps[q]], db)

\* ConfigManager.update_app_limit, lines 144-152
UpdateAppLimit(p, limit_minutes) ==
    IF p \notin DOMAIN config_apps
    THEN LedgerOther("update_app_limit", config_apps, db)
    ELSE LedgerOther("update_app_limit",
                    [config_apps EXCEPT ![p].limit_minutes = limit_minutes], db)

\* ConfigManager.enable_app, lines 182-193
EnableApp(p, enabled) ==
    IF p \notin DOMAIN config_apps
    THEN LedgerOther("enable_app", config_apps, db)
    ELSE LedgerOther("enable_app",
                    [config_apps EXCEPT ![p].enabled = enabled], db)

\* ConfigManager.update_app_usage, lines 205-232
UpdateAppUsage(p, used_minutes) ==
    LedgerCall("update_app_usage", p, used_minutes, update_app_usage_ret(config_apps, p),
               config_apps, update_app_usage(db, config_apps, p, used_minutes))

\* ConfigManager.mark_limit_reached, lines 234-246
MarkLimitReached(p) ==
    LedgerOther("mark_limit_reached", config_apps, mark_limit_reached(db, p))

\* ConfigManager.reset_app_timer, lines 266-289
ResetAppTimer(p) ==
    LedgerOther("reset_app_timer", config_apps, reset_app_timer(db, config_apps, p))

\* ConfigManager.reset_all_timers, lines 291-301
ResetAllTimers ==
    LedgerCallDue("reset_all_timers", NoApp, 0, reset_all_timers_count(config_apps, 1),
                  config_apps, reset_all_timers(db, config_apps), FALSE)

\* a check_and_reset_daily that does not compare the dates
CheckAndResetDaily_always ==
    LedgerCallDue("check_and_reset_daily", NoApp, 0, TRUE,
                  config_apps, reset_all_timers(db, config_apps), FALSE)

\* ConfigManager.check_and_reset_daily, lines 303-312
CheckAndResetDaily ==
    IF reset_due
    THEN LedgerCallDue("check_and_reset_daily", NoApp, 0, TRUE,
                       config_apps, reset_all_timers(db, config_apps), FALSE)
    ELSE LedgerCall("check_and_reset_daily", NoApp, 0, FALSE, config_apps, db)

\* the calendar day changes: db[get_today_date()] is the new day's, empty, dict
\* and last_reset_date is no longer today
NewDay ==
    LedgerCallDue("new_day", NoApp, 0, FALSE, config_apps, EmptyMap, TRUE)

NextLedger ==
    \/ \E p \in Packages, limit_minutes \in LedgerLimits, enabled \in BOOLEAN :
          AddApp(p, limit_minutes, enabled)
    \/ \E p \in Packages : RemoveApp(p)
    \/ \E p \in Packages, limit_minutes \in LedgerLimits : UpdateAppLimit(p, limit_minutes)
    \/ \E p \in Packages, enabled \in BOOLEAN : EnableApp(p, enabled)
    \/ \E p \in Packages, used_minutes \in 0..MaxMinutes : UpdateAppUsage(p, used_minutes)
    \/ \E p \in Packages : MarkLimitReached(p)
    \/ \E p \in Packages : ResetAppTimer(p)
    \/ ResetAllTimers
    \/ CheckAndResetDaily
    \/ NewDay

SpecLedger == LedgerInit /\ [][NextLedger]_vars

\* --------------------------------------------------- loading the documents
\* SpecLoad: a ConfigManager whose two documents are loaded again (__init__
\* of a new manager, or reload()) in the same process.

\* what a document on disk is when it is loaded: the JSON last saved, a file
\* json.load rejects with JSONDecodeError, or no file
DocumentKinds == {"valid", "corrupt", "missing"}

\* utils.dict_merge on two dicts of application records of the same keys:
\* the records of updates override those of base
dict_merge(base, updates) ==
    [x \in DOMAIN base \cup DOMAIN updates |->
        IF x \in DOMAIN updates THEN updates[x] ELSE base[x]]

\* ConfigManager._load_config: config["apps"] after the load, and whether it
\* is the dict of DEFAULT_CONFIG (DEFAULT_CONFIG.copy() is a shallow copy)
load_config(document) ==
    IF document = "valid"
    THEN [apps |-> dict_merge(DEFAULT_CONFIG.apps, config_apps), shared |-> FALSE]
    ELSE [apps |-> DEFAULT_CONFIG.apps, shared |-> TRUE]

\* ConfigManager._load_db: db[today] after the load
load_db(document) == IF document = "valid" THEN db ELSE EmptyMap

\* ConfigManager.__init__ / reload(): both documents are loaded
Load(config_document, db_document) ==
    /\ config_apps' = load_config(config_document).apps
    /\ DEFAULT_CONFIG' = [DEFAULT_CONFIG EXCEPT
                             !.shared = load_config(config_document).shared]
    /\ db' = load_db(db_document)
    /\ last' = [op |-> "load", pkg |-> NoApp, arg |-> <<config_document, db_document>>,
                ret |-> FALSE]
    /\ calls' = <<>>
    /\ UNCHANGED <<reset_due, app_states, session_age, app_total_seconds,
                   warning_sent, notify, loop_alive, frozen, warned_log, scn>>
    /\ UNCHANGED lifecycle

NextLoad ==
    \/ \E p \in Packages, limit_minutes \in LedgerLimits : AddApp(p, limit_minutes, TRUE)
    \/ \E p \in Packages : RemoveApp(p)
    \/ \E p \in Packages, limit_minutes \in LedgerLimits : UpdateAppLimit(p, limit_minutes)
    \/ \E config_document, db_document \in DocumentKinds :
          Load(config_document, db_document)

SpecLoad == LedgerInit /\ [][NextLoad]_vars

\* ------------------------------------------------ the management surface
\* SpecManage: the operations that put a limit into the configuration, called
\* with limits inside and outside the range validate_limit_minutes accepts.

\* "if limit > 1440": 24 hours, in minutes
MaxLimitMinutes == 1440

\* utils.validate_limit_minutes on an integer: TRUE when it returns the limit,
\* FALSE when it raises ValidationError
validate_limit_minutes(minutes) == minutes > 0 /\ minutes <= MaxLimitMinutes

\* the limits requested
RequestedLimits == {-1, 0, 1, MaxLimitMinutes, MaxLimitMinutes + 1}

\* the CLI command "set PACKAGE LIMIT_MINUTES" (click_cli.py 54-83), with the
\* default action
CliSet(p, limit_minutes) ==
    IF limit_minutes <= 0
    THEN LedgerOther("set", config_apps, db)
    ELSE IF p \in DOMAIN config_apps
    THEN LedgerOther("set", [config_apps EXCEPT ![p].limit_minutes = limit_minutes], db)
    ELSE LedgerOther("set",
                    Put(config_apps, p, [limit_minutes |-> limit_minutes,
                                         enabled |-> TRUE, action |-> "kill"]),
                    Put(db, p, ZeroRecord(limit_minutes)))

NextManage ==
    \/ \E p \in Packages, limit_minutes \in RequestedLimits : CliSet(p, limit_minutes)
    \/ \E p \in Packages, limit_minutes \in RequestedLimits :
          AddApp(p, limit_minutes, TRUE)
    \/ \E p \in Packages, limit_minutes \in RequestedLimits :
          UpdateAppLimit(p, limit_minutes)

SpecManage == LedgerInit /\ [][NextManage]_vars

\* ------------------------------------------------------- claim vocabulary
Tracked(p) == p \in DOMAIN app_states
Enabled(p) == p \in DOMAIN config_apps /\ config_apps[p].enabled
LimitSeconds(p) == config_apps[p].limit_minutes * SecondsPerMinute
ActuatorOps == {"kill_app", "freeze_app"}

\* among the calls cs of one step: a call of one of ops for p; one that failed
Called(cs, p, ops) == \E i \in 1..Len(cs) : cs[i].pkg = p /\ cs[i].op \in ops
CalledFailed(cs, p, ops) ==
    \E i \in 1..Len(cs) : cs[i].pkg = p /\ cs[i].op \in ops /\ cs[i].res = "false"

\* the last step was a tick that ran to its end (no exception left the loop)
TickDone == last.op = "tick" /\ loop_alive
\* the step being taken is a tick that performs no daily reset
PlainTick == last'.op = "tick" /\ ~last'.rolled

\* ----------------------------------------------------------------- C1
\* C1 (as claimed; actuator always succeeding): at the end of every tick, an
\* enabled application whose accumulated_seconds >= limit_minutes*60 is BLOCKED.
C1_BlockedOnceOverLimit ==
    \A p \in Packages :
        (TickDone /\ Tracked(p) /\ Enabled(p) /\ app_total_seconds[p] >= LimitSeconds(p))
            => app_states[p] = BLOCKED

\* ----------------------------------------------------------------- C2
\* C2 (as claimed): when the actuator reported failure for an over-limit
\* application on one tick, the next tick calls the actuator for it again,
\* whether or not the application is foregrounded on that tick.
C2_RetriedEveryTick ==
    [][ \A p \in Packages :
          ( /\ last.op = "tick"
            /\ CalledFailed(calls, p, ActuatorOps)
            /\ Enabled(p)
            /\ PlainTick
            /\ loop_alive' )
          => Called(calls', p, ActuatorOps) ]_vars

\* ----------------------------------------------------------------- C3
\* C3 (as claimed): a tick that sends the limit-reached notification for an
\* application is the tick that moves it into BLOCKED; a tick on which the
\* actuator fails sends none.
C3_LimitNoticeOnlyOnBlocking ==
    \A p \in Packages :
        (last.op = "tick" /\ Called(calls, p, {"send_limit_reached"}))
            => (Tracked(p) /\ app_states[p] = BLOCKED
                /\ ~CalledFailed(calls, p, ActuatorOps))

\* ----------------------------------------------------------------- C4
\* what the dispatcher does besides setting the state
EnforcementOps == ActuatorOps \cup {"send_limit_reached", "mark_limit_reached"}

\* C4: while an application is BLOCKED, a tick without daily reset leaves it
\* BLOCKED with the same accumulated_seconds, makes no actuator call, no
\* limit-reached notification and no ledger mark for it and leaves the
\* ledger's limit_reached and blocked_at as they are, foregrounded or not; a
\* step after which it is tracked and not BLOCKED is reset_app of it,
\* reset_all, or the tick of the daily reset.
C4_BlockedIsNoOp ==
    [][ \A p \in Packages :
          (Tracked(p) /\ app_states[p] = BLOCKED) =>
            /\ PlainTick =>
                 /\ p \in DOMAIN app_states' /\ app_states'[p] = BLOCKED
                 /\ app_total_seconds'[p] = app_total_seconds[p]
                 /\ ~Called(calls', p, EnforcementOps)
                 /\ (p \in DOMAIN db) =>
                       /\ db'[p].limit_reached = db[p].limit_reached
                       /\ db'[p].blocked_at = db[p].blocked_at
            /\ (p \in DOMAIN app_states' /\ app_states'[p] # BLOCKED) =>
                 \/ last'.op = "reset_app" /\ last'.pkg = p
                 \/ last'.op = "reset_all"
                 \/ last'.op = "tick" /\ last'.rolled ]_vars

\* a tick has just found a BLOCKED application in the foreground and called
\* nothing
C4_Witness ==
    \E p \in Packages :
        /\ last.op = "tick" /\ ~last.rolled /\ last.fg = p
        /\ Tracked(p) /\ app_states[p] = BLOCKED
        /\ app_total_seconds[p] >= LimitSeconds(p)
        /\ calls = <<>>

\* ----------------------------------------------------------------- C5
\* C5: for an enabled application below its limit that is PAUSED, a tick
\* without daily reset leaves accumulated_seconds unchanged; if the
\* application is foregrounded on it the state becomes MONITORING and
\* session_start that tick's time, otherwise the state stays PAUSED.  And
\* scenario B (whole-second tick times, 5 minutes of foreground, a background
\* period, 5 more minutes of foreground, backgrounded) ends with
\* accumulated_seconds = 600 and state PAUSED.
C5_PauseResumePreserves ==
    /\ [][ \A p \in Packages :
             ( /\ Tracked(p) /\ Enabled(p) /\ app_states[p] = PAUSED
               /\ app_total_seconds[p] < LimitSeconds(p)
               /\ PlainTick ) =>
                 /\ app_total_seconds'[p] = app_total_seconds[p]
                 /\ IF last'.fg = p
                    THEN app_states'[p] = MONITORING /\ session_age'[p] = Some(0)
                    ELSE app_states'[p] = PAUSED ]_vars
    /\ []( (scn.name = "B" /\ scn.phase = "done") =>
              /\ app_total_seconds["b"] = 10 * SecondsPerMinute
              /\ app_states["b"] = PAUSED )

\* scenario B has ended, after a background period of several ticks
C5_Witness ==
    /\ scn.name = "B" /\ scn.phase = "done" /\ scn.n >= 2
    /\ app_states["b"] = PAUSED
    /\ app_total_seconds["b"] = 10 * SecondsPerMinute

\* ----------------------------------------------------------------- C6
\* C6 (as claimed): a step that lowers the accumulated_seconds of an
\* application that is MONITORING or PAUSED lowers it to 0 and is reset_app of
\* that application, reset_all, or the tick of the daily reset.
C6_LoweredOnlyByReset ==
    [][ \A p \in Packages :
          ( /\ Tracked(p) /\ app_states[p] \in {MONITORING, PAUSED}
            /\ p \in DOMAIN app_total_seconds'
            /\ app_total_seconds'[p] < app_total_seconds[p] ) =>
              /\ app_total_seconds'[p] = 0
              /\ \/ last'.op = "reset_app" /\ last'.pkg = p
                 \/ last'.op = "reset_all"
                 \/ last'.op = "tick" /\ last'.rolled ]_vars

\* ----------------------------------------------------------------- C7
\* C7: once the 5-minute warning has been emitted for an application, no tick
\* before the next daily reset calls the sink's send_custom for it again,
\* whatever the pauses, resumes, foreground changes and manual resets in
\* between (warned_log: the applications warned since the last daily reset by
\* the running monitor).
C7_WarningAtMostOnce ==
    [][ \A p \in Packages :
          (p \in warned_log /\ PlainTick) => ~Called(calls', p, {"send_custom"}) ]_vars

\* a warned application is in the foreground, MONITORING, with 1 to 5 whole
\* minutes remaining, and the tick has called nothing
C7_Witness ==
    \E p \in Packages :
        /\ p \in warned_log
        /\ last.op = "tick" /\ ~last.rolled /\ last.fg = p
        /\ Tracked(p) /\ app_states[p] = MONITORING
        /\ seconds_to_minutes(LimitSeconds(p) - app_total_seconds[p]) \in 1..WarningMinutes
        /\ calls = <<>>

\* ----------------------------------------------------------------- C8
\* C8 (as claimed): a tick emits the warning for an application only if, on
\* that tick, its state is MONITORING and remaining = limit_minutes*60 -
\* accumulated_seconds satisfies 0 < remaining <= 300.
C8_WarningOnlyWithin300 ==
    \A p \in Packages :
        (last.op = "tick" /\ p \in Delivered(calls)) =>
            /\ Tracked(p) /\ app_states[p] = MONITORING
            /\ LimitSeconds(p) - app_total_seconds[p] > 0
            /\ LimitSeconds(p) - app_total_seconds[p] <= WarningMinutes * SecondsPerMinute

\* ----------------------------------------------------------------- C9
\* C9 (as claimed): in scenario A (limit 10 minutes, action kill, sampled every
\* 5 seconds, foregrounded from t = 0) the application is MONITORING at every
\* sample time before t = 600, and at t = 600, the first sample with
\* accumulated_seconds >= 600, that tick calls kill_app for it and leaves it
\* BLOCKED, the warning having been emitted on an earlier tick.
C9_ScenarioA ==
    (scn.name = "A" /\ scn.phase = "run") =>
        /\ scn.t < 10 * SecondsPerMinute =>
              /\ app_states["a"] = MONITORING
              /\ app_total_seconds["a"] < LimitSeconds("a")
        /\ scn.t >= 10 * SecondsPerMinute =>
              /\ app_states["a"] = BLOCKED
              /\ Called(calls, "a", {"kill_app"})
              /\ ~Called(calls, "a", {"send_custom"})
              /\ "a" \in warned_log

\* ---------------------------------------------------------------- C10
\* C10 (as claimed): whatever the notification sink does, every tick runs to
\* its end, so that the loop goes on ticking, and a foregrounded enabled
\* application at or over its limit has had its actuator called on that tick
\* or is BLOCKED.
C10_SinkFailureHarmless ==
    last.op = "tick" =>
        /\ loop_alive
        /\ \A p \in Packages :
              ( /\ last.fg = p /\ Enabled(p) /\ Tracked(p)
                /\ app_total_seconds[p] >= LimitSeconds(p) ) =>
                  (app_states[p] = BLOCKED \/ Called(calls, p, ActuatorOps))

\* ---------------------------------------------------------------- C11
\* a collaborator call among cs raised
Raised(cs) == \E i \in 1..Len(cs) : cs[i].res = "raises"

\* C11 (as claimed): after a tick during which an exception was raised, the
\* loop's thread is still running and goes on to the next tick.
C11_LoopSurvivesException ==
    (last.op = "tick" /\ Raised(calls)) => loop_alive

\* ---------------------------------------------------------------- C12
\* C12 (as claimed): when reset_app(p) or reset_all() has run while a tick was
\* processing p, the tick leaves p as one of the two serial orders does: reset
\* then tick (accumulated_seconds 0, MONITORING, session_start that tick's
\* time) or tick then reset (accumulated_seconds 0, INACTIVE, no
\* session_start).
C12_ResetNotInterleaved ==
    [][ \A p \in Packages :
          ( /\ pending # None /\ pending' = None /\ pending[1].pkg = p
            /\ pending[1].line = 147
            /\ \/ last.op = "reset_app" /\ last.pkg = p
               \/ last.op = "reset_all" ) =>
              /\ app_total_seconds'[p] = 0
              /\ \/ app_states'[p] = MONITORING /\ session_age'[p] = Some(0)
                 \/ app_states'[p] = INACTIVE /\ session_age'[p] = None ]_vars

\* ---------------------------------------------------------------- C13
\* the loop threads that have not exited
LiveLoops == {t \in 1..Len(loops) : loops[t] # "exited"}

\* C13 (as claimed): at any time at most one loop thread is executing or is
\* going to execute ticks.
C13_AtMostOneLoop == Cardinality(LiveLoops) <= 1

\* ---------------------------------------------------------------- C14
\* C14: while the stop flag stays set (_running false), no loop thread starts a
\* tick: one that evaluates the while condition exits; a tick in progress is
\* completed.  And once the flag is set, either start() sets _running again
\* or every loop thread eventually exits.
C14_StopEndsLoop ==
    /\ [][ \A t \in 1..Len(loops) :
             (~running /\ loops[t] # "body" /\ t \in 1..Len(loops'))
                => loops'[t] # "body" ]_vars
    /\ (~running /\ Len(loops) > 0) ~> (running \/ LiveLoops = {})

\* stop() was called on a running monitor whose sink cannot raise, after at
\* least one tick, and its loop thread has exited
C14_Witness ==
    /\ ~running
    /\ notify = "stub"
    /\ Len(loops) = 1 /\ loops[1] = "exited"
    /\ "a" \in DOMAIN app_states

\* ---------------------------------------------------------------- C15
\* the ledger's total of every tracked and configured application is its
\* accumulated_seconds in whole minutes
LedgerSynced ==
    \A p \in DOMAIN app_total_seconds :
        p \in DOMAIN config_apps =>
            /\ p \in DOMAIN db
            /\ db[p].total_minutes_used = app_total_seconds[p] \div SecondsPerMinute

\* C15 (as claimed): LedgerSynced holds at the end of every completed tick,
\* and once stop() has been called and every loop thread has exited.
C15_LedgerIsWholeMinutes ==
    ( \/ last.op = "tick" /\ ~Raised(calls)
      \/ ~running /\ Len(loops) > 0 /\ LiveLoops = {} ) => LedgerSynced

\* ---------------------------------------------------------------- C16
\* the applications whose action is freeze that the daily reset of the last
\* tick found BLOCKED
RolledOverBlocked ==
    IF last.op = "tick" /\ last.rolled
    THEN {p \in last.unblocked : p \in DOMAIN config_apps /\ config_apps[p].action = "freeze"}
    ELSE {}

\* what the claim and its amendment share: zeroed timer and ledger, flags
\* cleared, unfreeze_app called
RolledOverZeroed(p) ==
    /\ Tracked(p)
    /\ app_total_seconds[p] = 0
    /\ get_total_usage(db, p) = 0
    /\ p \in DOMAIN db => (~db[p].limit_reached /\ db[p].blocked_at = "None")
    /\ \E i \in 1..Len(calls) : calls[i].op = "unfreeze_app" /\ calls[i].pkg = p

\* C16 (as claimed): at the end of the tick of a daily rollover, an
\* application with action freeze that was BLOCKED is INACTIVE, its
\* accumulated_seconds and ledger usage are 0, its ledger flags are cleared
\* and unfreeze_app was called for it.
C16_RolloverUnblocks ==
    \A p \in RolledOverBlocked : RolledOverZeroed(p) /\ app_states[p] = INACTIVE

\* C16 (amended): the same, except that the application is INACTIVE only if
\* the probe of that tick did not report it in the foreground; if it did, the
\* application is MONITORING, with a session started on that tick.
C16_RolloverUnblocksOrRestarts ==
    \A p \in RolledOverBlocked :
        /\ RolledOverZeroed(p)
        /\ IF last.fg = p /\ Enabled(p)
           THEN app_states[p] = MONITORING /\ session_age[p] = Some(0)
           ELSE app_states[p] = INACTIVE /\ session_age[p] = None

\* a rollover tick found the freeze application BLOCKED and left it INACTIVE
C16_Witness ==
    \E p \in RolledOverBlocked : app_states[p] = INACTIVE /\ p \notin frozen

\* ---------------------------------------------------------------- C17
\* the configured applications that are enabled; those that are not
EnabledApps == {p \in DOMAIN config_apps : config_apps[p].enabled}
DisabledApps == DOMAIN config_apps \ EnabledApps

\* C17 (as claimed): reset_all() returns the number of enabled applications,
\* leaves every enabled application with accumulated_seconds 0, and leaves
\* the TimerRecord and the ledger record of every disabled application as
\* they were.
C17_ResetAllCountsEnabled ==
    [][ last'.op = "reset_all" =>
          /\ last'.ret = Cardinality(EnabledApps)
          /\ \A p \in EnabledApps :
                p \in DOMAIN app_total_seconds' /\ app_total_seconds'[p] = 0
          /\ \A p \in DisabledApps :
                /\ (p \in DOMAIN app_states) = (p \in DOMAIN app_states')
                /\ p \in DOMAIN app_states =>
                      /\ app_states'[p] = app_states[p]
                      /\ app_total_seconds'[p] = app_total_seconds[p]
                      /\ session_age'[p] = session_age[p]
                /\ (p \in DOMAIN db) = (p \in DOMAIN db')
                /\ p \in DOMAIN db => db'[p] = db[p] ]_vars

\* ---------------------------------------------------------------- C18
\* C18: reset_all_timers() leaves every enabled configured application with a
\* record of usage 0, no sessions, limit_reached false and blocked_at null,
\* returns the number of enabled applications, and leaves every other record
\* as it was.
C18_ResetAllTimersEnabledOnly ==
    [][ last'.op = "reset_all_timers" =>
          /\ last'.ret = Cardinality(EnabledApps)
          /\ \A p \in EnabledApps :
                /\ p \in DOMAIN db'
                /\ db'[p].total_minutes_used = 0
                /\ db'[p].sessions = <<>>
                /\ ~db'[p].limit_reached
                /\ db'[p].blocked_at = "None"
          /\ \A p \in Packages \ EnabledApps :
                /\ (p \in DOMAIN db) = (p \in DOMAIN db')
                /\ p \in DOMAIN db => db'[p] = db[p] ]_vars

\* reset_all_timers() returned with an enabled application and a disabled one
\* whose record shows usage and a reached limit
C18_Witness ==
    /\ last.op = "reset_all_timers"
    /\ EnabledApps # {}
    /\ \E p \in DisabledApps :
          p \in DOMAIN db /\ db[p].total_minutes_used > 0 /\ db[p].limit_reached

\* ---------------------------------------------------------------- C19
\* C19 (as claimed): every record of today satisfies
\* remaining_minutes = max(0, limit_minutes - total_minutes_used), with the
\* limit_minutes stored in that record.
C19_RemainingFromRecordLimit ==
    \A p \in DOMAIN db :
        db[p].remaining_minutes = Max(0, db[p].limit_minutes - db[p].total_minutes_used)

\* ---------------------------------------------------------------- C20
\* C20: after update_app_usage(p, m) on a configured application it returned
\* True, get_total_usage(p) is m, and a second call with the same m would
\* change nothing; on an application that is not configured it returned False
\* and no record changed.
C20_UpdateUsageOverwrites ==
    [][ last'.op = "update_app_usage" =>
          LET p == last'.pkg
              m == last'.arg
          IN  IF p \in DOMAIN config_apps
              THEN /\ last'.ret = TRUE
                   /\ get_total_usage(db', p) = m
                   /\ update_app_usage(db', config_apps', p, m) = db'
              ELSE /\ last'.ret = FALSE
                   /\ db' = db ]_vars

\* update_app_usage(p, 1) returned True for a configured application whose
\* record is marked as having reached its limit
C20_Witness ==
    /\ last.op = "update_app_usage"
    /\ last.ret = TRUE
    /\ last.arg = 1
    /\ get_total_usage(db, last.pkg) = 1
    /\ db[last.pkg].limit_reached

\* ---------------------------------------------------------------- C21
\* C21: check_and_reset_daily() returns True exactly when last_reset_date
\* differs from today, and then every enabled application has a record with
\* usage 0; it leaves last_reset_date equal to today; when it returns False it
\* changes neither the configuration, nor the ledger, nor any timer; and
\* last_reset_date stops being today only when the day changes.
C21_DailyResetOncePerDay ==
    [][ /\ last'.op = "check_and_reset_daily" =>
             /\ last'.ret = reset_due
             /\ ~reset_due'
             /\ reset_due =>
                   \A p \in EnabledApps : p \in DOMAIN db' /\ db'[p].total_minutes_used = 0
             /\ ~reset_due =>
                   /\ db' = db
                   /\ config_apps' = config_apps
                   /\ app_states' = app_states
                   /\ app_total_seconds' = app_total_seconds
                   /\ session_age' = session_age
                   /\ warning_sent' = warning_sent
        /\ (~reset_due /\ reset_due') => last'.op = "new_day" ]_vars

\* a second check_and_reset_daily() on the same day returned False and left
\* the usage recorded since the reset
C21_Witness ==
    /\ last.op = "check_and_reset_daily"
    /\ last.ret = FALSE
    /\ \E p \in EnabledApps : p \in DOMAIN db /\ db[p].total_minutes_used > 0

\* ---------------------------------------------------------------- C22
\* the calls that warn, notify of a reached limit, or drive the actuator
EffectOps == {"send_custom", "send_limit_reached", "kill_app", "freeze_app", "unfreeze_app"}

\* C22 (as claimed): a tick leaves the state, the session start, the
\* accumulated_seconds and the warning flag of every disabled application as
\* they were, and makes no warning, limit notification or actuator call for it.
C22_DisabledSkipped ==
    [][ last'.op = "tick" =>
          \A p \in DisabledApps :
             /\ Tracked(p) =>
                   /\ p \in DOMAIN app_states'
                   /\ app_states'[p] = app_states[p]
                   /\ app_total_seconds'[p] = app_total_seconds[p]
                   /\ (session_age'[p] = None) = (session_age[p] = None)
             /\ (p \in warning_sent') = (p \in warning_sent)
             /\ \A i \in 1..Len(calls') :
                   ~(calls'[i].pkg = p /\ calls'[i].op \in EffectOps) ]_vars

C24_RunningMeansLoopAlive == running => LiveLoops # {}

\* ---------------------------------------------------------------- C25
\* C25 (as claimed): a stop() whose join returns while the thread it joined
\* has not ended does not report a normal stop.
C25_StopReportsTimeout ==
    [][ ( /\ starts[Stopper] = "joining" /\ starts'[Stopper] = "idle"
          /\ loops[Len(loops)] # "exited" ) => last'.ret # "stopped" ]_vars

\* ---------------------------------------------------------------- C26
\* the applications the last step reset: the one reset_app was called for if
\* it has a timer record, every tracked one for reset_all, every configured
\* one for the tick of a daily reset
ResetBy(l) ==
    IF l.op = "reset_app" THEN {l.pkg} \cap DOMAIN app_total_seconds
    ELSE IF l.op = "reset_all" THEN DOMAIN app_total_seconds
    ELSE IF l.op = "tick" /\ l.rolled THEN DOMAIN config_apps
    ELSE {}

\* C26 (as claimed): after a reset of an application its warning-sent flag is
\* false, unless the tick of the reset itself sent a new warning.
C26_ResetClearsWarningFlag ==
    \A p \in ResetBy(last) :
        p \in warning_sent => \E i \in 1..Len(calls) :
                                  calls[i].op = "send_custom" /\ calls[i].pkg = p

\* ---------------------------------------------------------------- C27
\* C27 (as claimed): a reset of an application whose action is freeze calls
\* unfreeze_app for it.
C27_ResetUnfreezes ==
    \A p \in ResetBy(last) :
        (p \in DOMAIN config_apps /\ config_apps[p].action = "freeze")
           => \E i \in 1..Len(calls) : calls[i].op = "unfreeze_app" /\ calls[i].pkg = p

\* ---------------------------------------------------------------- C28
\* the applications whose unfreeze_app call reported failure in the calls cs
UnfreezeFailed(cs) ==
    {cs[i].pkg : i \in {j \in 1..Len(cs) : cs[j].op = "unfreeze_app" /\ cs[j].res = "false"}}

\* C28 (as claimed): when unfreeze_app reported failure for an application
\* during the tick of the daily reset, the next tick calls unfreeze_app for
\* it again.
C28_FailedUnfreezeRetried ==
    [][ (last.op = "tick" /\ last.rolled /\ last'.op = "tick")
          => \A p \in UnfreezeFailed(calls) \cap DOMAIN config_apps' :
                \E i \in 1..Len(calls') :
                    calls'[i].op = "unfreeze_app" /\ calls'[i].pkg = p ]_vars

\* ---------------------------------------------------------------- C29
\* C29 (as claimed): at the end of a tick that completed, session_start is set
\* exactly for the applications in state MONITORING.
C29_SessionStartIffMonitoring ==
    (last.op = "tick" /\ ~Raised(calls))
       => \A p \in DOMAIN app_states :
             (session_age[p] # None) <=> (app_states[p] = MONITORING)

\* ============================================================== restart
\* The monitor sampled at the default interval, with the process ending and
\* starting again between two ticks.

\* the durations between two ticks: time.sleep(check_interval) with no latency
\* and with a fraction of a second of it
SeedDt == {CheckInterval * Res, CheckInterval * Res + 1}
\* the same interval during which the system clock was set back by twice the
\* interval
SeedClockSetBack == {-(CheckInterval * Res)}

\* one application added today, a sink that accepts every call
SeedInit ==
    /\ config_apps = ("a" :> [limit_minutes |-> 2, enabled |-> TRUE, action |-> "kill"])
    /\ reset_due = TRUE
    /\ db = [p \in DOMAIN config_apps |-> ZeroRecord(config_apps[p].limit_minutes)]
    /\ app_states = EmptyMap
    /\ session_age = EmptyMap
    /\ app_total_seconds = EmptyMap
    /\ warning_sent = {}
    /\ notify = "stub"
    /\ loop_alive = TRUE
    /\ frozen = {}
    /\ calls = <<>>
    /\ last = [op |-> "init", pkg |-> NoApp, fg |-> NoApp, rolled |-> FALSE, ret |-> 0,
            unblocked |-> {}]
    /\ warned_log = {}
    /\ DEFAULT_CONFIG = Pristine
    /\ scn = NoScenario
    /\ Started

SeedTickStep ==
    /\ scn = NoScenario
    /\ \E dt \in SeedDt \cup SeedClockSetBack, current_active \in ProbeResults :
          \E act_ok \in ActChoices(current_active) :
             Tick(dt, current_active, act_ok, "true", IF reset_due THEN FreezeApps ELSE {})
    /\ UNCHANGED scn
    /\ UNCHANGED lifecycle
    /\ UNCHANGED DEFAULT_CONFIG

NextSeed == SeedTickStep \/ Restart

SpecSeed == SeedInit /\ [][NextSeed]_vars

\* _app_total_seconds as a new AppMonitor's first initialisation loop (lines
\* 109-110) fills it from the persisted ledger d
SeedFromLedger(d) ==
    InitializeAllFrom([st |-> EmptyMap, age |-> EmptyMap, tot |-> EmptyMap, warned |-> {},
                       d |-> d, frz |-> frozen, calls |-> <<>>, raised |-> FALSE], 1).tot

\* the applications a completed tick has just flushed to the ledger
Flushed ==
    IF last.op = "tick" /\ ~Raised(calls)
    THEN DOMAIN app_total_seconds \cap DOMAIN config_apps
    ELSE {}

C31_MonitoringIsForeground ==
    last.op = "tick"
       => \A p \in DOMAIN app_states :
             (Enabled(p) /\ app_states[p] = MONITORING) => p = last.fg

\* ---------------------------------------------------------------- C32
\* C32 (as claimed): at the end of a tick that detected a new calendar day,
\* every enabled application has accumulated_seconds = 0 and is INACTIVE or
\* MONITORING.
C32_RolloverTickStartsAtZero ==
    (last.op = "tick" /\ last.rolled)
       => \A p \in EnabledApps :
             /\ p \in DOMAIN app_total_seconds
             /\ app_total_seconds[p] = 0
             /\ app_states[p] \in {INACTIVE, MONITORING}


\* a tick detected the new day while an application was BLOCKED, and an
\* enabled application was in the foreground on that tick
C32_Witness ==
    /\ last.op = "tick" /\ last.rolled
    /\ last.unblocked # {}
    /\ \E p \in EnabledApps : p = last.fg /\ app_states[p] = MONITORING

\* ---------------------------------------------------------------- C33
\* the step being taken is a tick whose foreground query failed
FailedProbeTick ==
    /\ last'.op = "tick"
    /\ \E r1, r2 \in CommandOutcomes :
          ProbeFailed(r1, r2) /\ last'.fg = get_active_app(r1, r2)

\* the applications that are MONITORING before the step
MonitoringApps == {p \in DOMAIN app_states : app_states[p] = MONITORING}

\* application p goes from MONITORING to PAUSED on the step: its session is
\* closed, the seconds elapsed since the previous tick are added to its total
\* and the ledger holds the whole minutes of the new total
PausedAndFlushed(p) ==
    /\ app_states'[p] = PAUSED
    /\ session_age'[p] = None
    /\ session_age[p] # None
    /\ app_total_seconds'[p] =
          app_total_seconds[p] + int_elapsed(session_age[p][1] + CheckInterval * Res)
    /\ p \in DOMAIN db'
    /\ db'[p].total_minutes_used = seconds_to_minutes(app_total_seconds'[p])

\* C33 (as claimed): on a tick whose foreground query failed, the loop
\* continues, no application moves to MONITORING, and every application that
\* was MONITORING is PAUSED with its elapsed seconds flushed.
C33_FailedProbePausesAll ==
    [][ FailedProbeTick
          => /\ loop_alive'
             /\ \A p \in DOMAIN app_states' :
                   app_states'[p] = MONITORING => p \in MonitoringApps
             /\ \A p \in MonitoringApps :
                   p \in DOMAIN app_states' /\ PausedAndFlushed(p) ]_vars

\* C33 (amended): on a tick whose foreground query failed, the loop continues
\* and no application moves to MONITORING; if the tick performs no daily
\* reset, every enabled application that was MONITORING is PAUSED with its
\* elapsed seconds flushed; if it performs one, no application is MONITORING.
C33_FailedProbePausesEnabled ==
    [][ FailedProbeTick
          => /\ loop_alive'
             /\ \A p \in DOMAIN app_states' :
                   app_states'[p] = MONITORING => p \in MonitoringApps
             /\ ~last'.rolled
                   => \A p \in MonitoringApps : Enabled(p) => PausedAndFlushed(p)
             /\ last'.rolled
                   => \A p \in DOMAIN app_states' : app_states'[p] # MONITORING ]_vars

\* the foreground query of a tick without daily reset failed while an enabled
\* application was being timed: it is PAUSED with a total that grew
C33_Witness ==
    /\ last.op = "tick" /\ ~last.rolled /\ last.fg = NoApp
    /\ \E p \in EnabledApps :
          /\ p \in DOMAIN app_states
          /\ app_states[p] = PAUSED
          /\ app_total_seconds[p] > 0

\* ---------------------------------------------------------------- C34
\* the applications the calls cs enforce: the dispatcher went past its guard
EnforcedIn(cs) == {cs[i].pkg : i \in {j \in 1..Len(cs) : cs[j].op = "mark_limit_reached"}}

\* the actuator call the configured action of p asks for
ActionOp(p) == IF config_apps[p].action = "freeze" THEN "freeze_app" ELSE "kill_app"

\* the calls cs[i..] begin with the steps of one enforcement of p, in order:
\* the ledger mark, the notification if a sink is configured, the actuator
\* call of the configured action
EnforcementAt(cs, i, p) ==
    LET k == IF notify = "none" THEN i + 1 ELSE i + 2
    IN  /\ k <= Len(cs)
        /\ cs[i].op = "mark_limit_reached" /\ cs[i].pkg = p
        /\ notify # "none" => (cs[i + 1].op = "send_limit_reached" /\ cs[i + 1].pkg = p)
        /\ cs[k].op = ActionOp(p) /\ cs[k].pkg = p
        /\ (app_states[p] = BLOCKED) <=> (cs[k].res = "true")

\* C34 (as claimed): an enforcement performs, in this order, the ledger mark,
\* the limit-reached notification and exactly one actuator call, that of the
\* configured action; the state is BLOCKED iff that call reported success.
C34_EnforcementSteps ==
    last.op = "tick"
       => \A p \in EnforcedIn(calls) :
             /\ \E i \in 1..Len(calls) : EnforcementAt(calls, i, p)
             /\ Cardinality({i \in 1..Len(calls) :
                               calls[i].pkg = p /\ calls[i].op \in ActuatorOps}) = 1

\* ---------------------------------------------------------------- C35
\* C35 (as claimed): after a load, a corrupt configuration document has given
\* the default configuration, with no monitored application, and a corrupt
\* ledger document an empty ledger.
C35_CorruptLoadsDefault ==
    last.op = "load"
       => /\ last.arg[1] = "corrupt" => config_apps = EmptyMap
          /\ last.arg[2] = "corrupt" => db = EmptyMap

\* ---------------------------------------------------------------- C36
\* C36 (as claimed): every application in the configuration has a limit that
\* validate_limit_minutes accepts, 0 < limit_minutes <= 1440.
C36_LimitsInRange ==
    \A p \in DOMAIN config_apps : validate_limit_minutes(config_apps[p].limit_minutes)

\* ---------------------------------------------------------------- C37
\* C37 (as claimed): the first tick after an application was enabled again
\* adds at most one tick interval of seconds to its accumulated seconds.
C37_NoAccrualWhileDisabled ==
    [][ (last.op = "enable_app" /\ last'.op = "tick")
          => \A p \in DOMAIN app_total_seconds \cap DOMAIN app_total_seconds' :
                (p = last.pkg /\ Enabled(p))
                   => app_total_seconds'[p] - app_total_seconds[p] <= CheckInterval ]_vars

\* ---------------------------------------------------------------- C38
\* C38 (as claimed): an application whose state is BLOCKED has
\* accumulated_seconds >= limit_minutes*60.
C38_BlockedIsOverLimit ==
    \A p \in DOMAIN app_states :
        (app_states[p] = BLOCKED /\ p \in DOMAIN config_apps)
           => /\ p \in DOMAIN app_total_seconds
              /\ app_total_seconds[p] >= LimitSeconds(p)

====
